---- MODULE Spec2Model ----
(***************************************************************************)
(* Credential and session lifecycle of focus-gps-backend: the auth         *)
(* controller (loginUser, refreshAccessToken, logoutUser), the jsonwebtoken *)
(* and bcryptjs primitives it calls, the User model it stores into, the    *)
(* protect and authorizeRoles middleware, and the routes behind them       *)
(* (getUserProfile and the user controller).                               *)
(*                                                                         *)
(* Spec runs the session handlers over a week of clock; SpecAccess adds    *)
(* the profile route and moves the clock around the lifetime of an access  *)
(* token; SpecAdmin adds the admin routes of /api/users; SpecFault lets    *)
(* the database connection fail between requests; SpecRace interleaves two *)
(* refresh requests at their awaits.                                       *)
(*                                                                         *)
(* Every HTTP handler is one action.  A handler works on a document that   *)
(* it loads from the users collection, assigns to, and saves.  The User    *)
(* schema is strict (the Mongoose default): save() persists the paths the  *)
(* schema declares and nothing else, and a loaded document exposes the     *)
(* paths the schema declares and nothing else.  The schema declares        *)
(* refreshTokenHash; the controller reads and writes refreshToken.         *)
(***************************************************************************)
EXTENDS Integers, FiniteSets, Sequences, TLC

(***************************************************************************)
(* Bounds of the model.                                                    *)
(***************************************************************************)
MaxTicks == 1

(***************************************************************************)
(* Program constants: token lifetimes in seconds ('15m', '7d').            *)
(***************************************************************************)
ACCESS_EXPIRES_IN == 900
REFRESH_EXPIRES_IN == 604800

JWT_SECRET == "JWT_SECRET"
REFRESH_TOKEN_SECRET_sameAsAccess == "JWT_SECRET"

REFRESH_TOKEN_SECRET == "REFRESH_TOKEN_SECRET"

(* The clock advances by a second or by a refresh-token lifetime.          *)
TickSteps == {1, REFRESH_EXPIRES_IN}

(***************************************************************************)
(* Accounts.                                                               *)
(***************************************************************************)
Users == {"u1", "u2", "u3"}

(* The accounts the collection holds at the start; u3 is the _id of the    *)
(* account createUser can add.                                             *)
Seeded == {"u1", "u2"}

NameOf(u) == IF u = "u1" THEN "alice" ELSE IF u = "u2" THEN "bob" ELSE "carol"

EmailOf(u) == IF u = "u1" THEN "alice@x" ELSE IF u = "u2" THEN "bob@x" ELSE "carol@x"

PasswordOf(u) == IF u = "u1" THEN "pw-alice" ELSE IF u = "u2" THEN "pw-bob" ELSE "pw-carol"

RoleOf(u) == IF u = "u1" THEN "admin" ELSE "user"

LoginNames == {"alice", "bob", "mallory"}

(* "#123" stands for a password that is not a string (a JSON number).      *)
LoginPasswords == {"", "pw-alice", "pw-bob", "#123"}

(***************************************************************************)
(* Tokens.  A JWT is its signing secret and its payload {id, iat, exp};    *)
(* iat is in whole seconds, so two tokens signed for the same id with the  *)
(* same secret within one second are the same string.                      *)
(***************************************************************************)
NoToken == [fmt |-> "none", secret |-> "-", id |-> "-", iat |-> 0, exp |-> 0]

Garbage == [fmt |-> "garbage", secret |-> "-", id |-> "-", iat |-> 0, exp |-> 0]

(* cookie-parser turns a cookie value "j:<json>" into the parsed value: an *)
(* object or a number where the handlers expect a string.                  *)
JsonCookie == [fmt |-> "json", secret |-> "-", id |-> "-", iat |-> 0, exp |-> 0]

jwtSign(id, secret, expiresIn, t) ==
    [fmt |-> "jwt", secret |-> secret, id |-> id, iat |-> t, exp |-> t + expiresIn]

Forged == jwtSign("u1", "attacker-secret", REFRESH_EXPIRES_IN, 0)

generateAccessToken_sevenDays(id, t) == jwtSign(id, JWT_SECRET, REFRESH_EXPIRES_IN, t)

generateAccessToken(id, t) == jwtSign(id, JWT_SECRET, ACCESS_EXPIRES_IN, t)

generateRefreshToken(id, t) == jwtSign(id, REFRESH_TOKEN_SECRET, REFRESH_EXPIRES_IN, t)

(* jwt.verify: not a string or malformed, then signature, then expiry     *)
(* (now >= exp).                                                           *)
jwtVerify_noExpiry(tok, secret, t) ==
    IF tok.fmt # "jwt" \/ tok.secret # secret
    THEN [ok |-> FALSE, name |-> "JsonWebTokenError", id |-> "-"]
    ELSE [ok |-> TRUE, name |-> "-", id |-> tok.id]

jwtVerify(tok, secret, t) ==
    IF tok.fmt # "jwt" THEN [ok |-> FALSE, name |-> "JsonWebTokenError", id |-> "-"]
    ELSE IF tok.secret # secret THEN [ok |-> FALSE, name |-> "JsonWebTokenError", id |-> "-"]
    ELSE IF t >= tok.exp THEN [ok |-> FALSE, name |-> "TokenExpiredError", id |-> "-"]
    ELSE [ok |-> TRUE, name |-> "-", id |-> tok.id]

(***************************************************************************)
(* bcryptjs.  A hash covers the first 72 bytes of its input.  Of a JWT of  *)
(* this program those are the header, the same for every token, and the    *)
(* start of the payload, {"id":"<the first 19 digits of the id>; iat, exp  *)
(* and the signature lie beyond them.  compare(s, hash) rejects when s or  *)
(* hash is not a string and answers false when hash is not 60 characters   *)
(* long.                                                                   *)
(***************************************************************************)
Undefined == [t |-> "undefined", pre |-> "-"]

EmptyString == [t |-> "empty", pre |-> "-"]

First72(tok) == IF tok.fmt = "jwt" THEN tok.id ELSE tok.fmt

(* hash(s, rounds) rejects when s is not a string.                         *)
bcryptHashRejects(s) == s.fmt = "json"

bcryptHash(tok) == [t |-> "bcrypt", pre |-> First72(tok)]

bcryptCompare(s, hash) ==
    IF s.fmt = "json" \/ hash.t = "undefined" THEN "throw"
    ELSE IF hash.t = "empty" THEN "false"
    ELSE IF First72(s) = hash.pre THEN "true" ELSE "false"

(***************************************************************************)
(* The User model.                                                         *)
(***************************************************************************)
SchemaPaths_withRefreshToken ==
    {"name", "email", "passwordHash", "role", "refreshTokenHash", "refreshToken"}

SchemaPaths == {"name", "email", "passwordHash", "role", "refreshTokenHash"}

NullDoc == [found |-> FALSE, id |-> "-", name |-> "-", role |-> "-", refreshToken |-> Undefined]

(* A loaded document: the property refreshToken is what the collection     *)
(* holds when the schema declares that path, and undefined otherwise.      *)
Hydrate(d, u) ==
    [found |-> TRUE, id |-> u, name |-> d[u].name, role |-> d[u].role,
     refreshToken |-> IF "refreshToken" \in SchemaPaths THEN d[u].refreshToken ELSE Undefined]

findById(d, id) ==
    IF id \in Users /\ d[id].exists THEN Hydrate(d, id) ELSE NullDoc

findOne(d, name) ==
    IF \E u \in Users : d[u].exists /\ d[u].name = name
    THEN Hydrate(d, CHOOSE u \in Users : d[u].exists /\ d[u].name = name)
    ELSE NullDoc

(* user.save(): writes the document's schema paths to the collection.      *)
save(d, doc) ==
    IF doc.found /\ "refreshToken" \in SchemaPaths
    THEN [d EXCEPT ![doc.id].refreshToken = doc.refreshToken]
    ELSE d

matchPassword(doc, enteredPassword) ==
    IF enteredPassword = "#123" THEN "throw"
    ELSE IF enteredPassword = PasswordOf(doc.id) THEN "true" ELSE "false"

(***************************************************************************)
(* Responses.  cookie is what the response does to the refreshToken        *)
(* cookie; log is what the handler prints; wrote is the documents the      *)
(* handler assigned its refreshToken property on and saved; decoded is the *)
(* subject jwt.verify returned to the handler; keys is the keys of the     *)
(* JSON body (of each element, when the body is a list); user is the keys  *)
(* of the object protect attached to the request.                          *)
(***************************************************************************)
CookieNone == [act |-> "none", tok |-> NoToken]

CookieClear == [act |-> "clear", tok |-> NoToken]

CookieSet(tok) == [act |-> "set", tok |-> tok]

Resp(status, msg) ==
    [status |-> status, msg |-> msg, expired |-> FALSE, token |-> NoToken,
     cookie |-> CookieNone, log |-> "none", wrote |-> {}, decoded |-> "-",
     keys |-> IF msg = "-" THEN {} ELSE {"message"}, user |-> {}]

NoReq == [op |-> "none", username |-> "", tok |-> NoToken, id |-> "-"]

NoRes == Resp(0, "-")

(***************************************************************************)
(* The connection to MongoDB.  "up": every query resolves; "readonly":     *)
(* reads resolve and writes reject; "down": every query rejects.           *)
(***************************************************************************)
DbStates == {"up", "readonly", "down"}

readRejects(s) == s = "down"

writeRejects(s) == s # "up"

(***************************************************************************)
(* Requests in flight, for the runs in which two requests interleave at    *)
(* their awaits: where each request's handler stands, the cookie it        *)
(* carries, the document it has loaded, and its response.                  *)
(***************************************************************************)
Procs == {"p1", "p2"}

Idle == [pc |-> "idle", tok |-> NoToken, user |-> NullDoc, res |-> NoRes, wasStored |-> FALSE]

VARIABLES now, ticks, db, dbState, issued, req, res, loggedOut, rotated, stored, calls

vars == <<now, ticks, db, dbState, issued, req, res, loggedOut, rotated, stored, calls>>

(***************************************************************************)
(* persist: the save() calls of a handler, applied to the collection.      *)
(***************************************************************************)
persist(d, wrote) ==
    IF wrote = {} THEN d
    ELSE LET w == CHOOSE x \in wrote : TRUE
         IN  save(d, [Hydrate(d, w.id) EXCEPT !.refreshToken = w.val])

(* History: for each account, the refresh token whose digest a handler     *)
(* most recently assigned and saved, NoToken once a handler has assigned   *)
(* and saved the empty string since.                                       *)
track(st, r) ==
    IF r.wrote = {} THEN st
    ELSE LET w == CHOOSE x \in r.wrote : TRUE
         IN  [st EXCEPT ![w.id] = IF w.val = EmptyString THEN NoToken ELSE r.cookie.tok]

(***************************************************************************)
(* loginUser                                                               *)
(***************************************************************************)
loginInvalid == [Resp(400, "validation errors") EXCEPT !.keys = {"errors"}]

loginOk_withDigest(user, accessToken, refreshToken) ==
    [Resp(200, "ok") EXCEPT
        !.token = accessToken, !.cookie = CookieSet(refreshToken),
        !.keys = {"_id", "name", "email", "role", "token", "refreshToken"},
        !.wrote = {[id |-> user.id, val |-> bcryptHash(refreshToken)]}]

loginOk(user, accessToken, refreshToken) ==
    [Resp(200, "ok") EXCEPT
        !.token = accessToken, !.cookie = CookieSet(refreshToken),
        !.keys = {"_id", "name", "email", "role", "token"},
        !.wrote = {[id |-> user.id, val |-> bcryptHash(refreshToken)]}]

loginDenied == Resp(401, "Invalid username or password")

loginCatch == [Resp(500, "Server error during login.") EXCEPT !.log = "error: login error"]

loginOutcome(username, password, t, d, s) ==
    LET user == findOne(d, username)
        accessToken == generateAccessToken(user.id, t)
        refreshToken == generateRefreshToken(user.id, t)
    IN  IF username = "" \/ password = ""
        THEN [res |-> loginInvalid, minted |-> {}]
        ELSE IF readRejects(s)
        THEN [res |-> loginCatch, minted |-> {}]
        ELSE IF user.found /\ matchPassword(user, password) = "throw"
        THEN [res |-> loginCatch, minted |-> {}]
        ELSE IF user.found /\ matchPassword(user, password) = "true"
        THEN IF writeRejects(s)
             THEN [res |-> loginCatch, minted |-> {}]
             ELSE [res |-> loginOk(user, accessToken, refreshToken),
                   minted |-> {accessToken, refreshToken}]
        ELSE [res |-> loginDenied, minted |-> {}]

(***************************************************************************)
(* refreshAccessToken                                                      *)
(***************************************************************************)
refreshNoCookie_forbidden == Resp(403, "No refresh token provided in cookies")

refreshNoCookie == Resp(401, "No refresh token provided in cookies")

refreshUserNotFound(id) ==
    [Resp(403, "Forbidden: User not found with refresh token") EXCEPT !.decoded = id]

refreshReuse(user) ==
    [Resp(403, "Forbidden: Invalid refresh token") EXCEPT
        !.cookie = CookieClear, !.log = "warn: refresh token reuse detected",
        !.wrote = {[id |-> user.id, val |-> EmptyString]}, !.decoded = user.id]

refreshOk(user, newAccessToken, newRefreshToken) ==
    [Resp(200, "ok") EXCEPT
        !.token = newAccessToken, !.cookie = CookieSet(newRefreshToken),
        !.keys = {"_id", "name", "email", "role", "token"},
        !.wrote = {[id |-> user.id, val |-> bcryptHash(newRefreshToken)]},
        !.decoded = user.id]

refreshCatch_keepCookie(errorName, decodedId) ==
    IF errorName = "TokenExpiredError"
    THEN [Resp(403, "Refresh token expired") EXCEPT
            !.expired = TRUE, !.keys = {"message", "expired"}, !.log = "error: refresh token error", !.decoded = decodedId]
    ELSE [Resp(403, "Forbidden: Invalid refresh token") EXCEPT
            !.log = "error: refresh token error", !.decoded = decodedId]

refreshCatch(errorName, decodedId) ==
    IF errorName = "TokenExpiredError"
    THEN [Resp(403, "Refresh token expired") EXCEPT
            !.expired = TRUE, !.keys = {"message", "expired"}, !.cookie = CookieClear, !.log = "error: refresh token error",
            !.decoded = decodedId]
    ELSE [Resp(403, "Forbidden: Invalid refresh token") EXCEPT
            !.cookie = CookieClear, !.log = "error: refresh token error",
            !.decoded = decodedId]

refreshOutcome(tok, t, d, s) ==
    LET decoded == jwtVerify(tok, REFRESH_TOKEN_SECRET, t)
        user == findById(d, decoded.id)
        match == bcryptCompare(tok, user.refreshToken)
        newAccessToken == generateAccessToken(user.id, t)
        newRefreshToken == generateRefreshToken(user.id, t)
    IN  IF tok = NoToken
        THEN [res |-> refreshNoCookie, minted |-> {}]
        ELSE IF ~decoded.ok
        THEN [res |-> refreshCatch(decoded.name, "-"), minted |-> {}]
        ELSE IF readRejects(s)
        THEN [res |-> refreshCatch("MongoError", decoded.id), minted |-> {}]
        ELSE IF ~user.found
        THEN [res |-> refreshUserNotFound(decoded.id), minted |-> {}]
        ELSE IF match = "throw"
        THEN [res |-> refreshCatch("Error", decoded.id), minted |-> {}]
        ELSE IF writeRejects(s)
        THEN [res |-> refreshCatch("MongoError", decoded.id), minted |-> {}]
        ELSE IF match = "false"
        THEN [res |-> refreshReuse(user), minted |-> {}]
        ELSE [res |-> refreshOk(user, newAccessToken, newRefreshToken),
              minted |-> {newAccessToken, newRefreshToken}]

(* refreshAccessToken in two steps, for interleaved requests.  The first   *)
(* runs to the end of the await of findById (line 119) and holds the       *)
(* loaded document; the second runs from bcrypt.compare (line 126) to the  *)
(* response, on the document the first step loaded.                        *)
refreshUntilRead(tok, t, d, s) ==
    LET decoded == jwtVerify(tok, REFRESH_TOKEN_SECRET, t)
        user == findById(d, decoded.id)
    IN  IF tok = NoToken
        THEN [done |-> TRUE, res |-> refreshNoCookie, user |-> NullDoc]
        ELSE IF ~decoded.ok
        THEN [done |-> TRUE, res |-> refreshCatch(decoded.name, "-"), user |-> NullDoc]
        ELSE IF readRejects(s)
        THEN [done |-> TRUE, res |-> refreshCatch("MongoError", decoded.id), user |-> NullDoc]
        ELSE IF ~user.found
        THEN [done |-> TRUE, res |-> refreshUserNotFound(decoded.id), user |-> NullDoc]
        ELSE [done |-> FALSE, res |-> NoRes, user |-> user]

refreshFromRecord(tok, t, user, s) ==
    LET match == bcryptCompare(tok, user.refreshToken)
        newAccessToken == generateAccessToken(user.id, t)
        newRefreshToken == generateRefreshToken(user.id, t)
    IN  IF match = "throw"
        THEN [res |-> refreshCatch("Error", user.id), minted |-> {}]
        ELSE IF writeRejects(s)
        THEN [res |-> refreshCatch("MongoError", user.id), minted |-> {}]
        ELSE IF match = "false"
        THEN [res |-> refreshReuse(user), minted |-> {}]
        ELSE [res |-> refreshOk(user, newAccessToken, newRefreshToken),
              minted |-> {newAccessToken, newRefreshToken}]

(***************************************************************************)
(* logoutUser                                                              *)
(***************************************************************************)
logoutNoCookie == Resp(204, "-")

(* The lookup by a fresh hash of the cookie runs outside every try block:  *)
(* when bcrypt.hash rejects, the handler's promise rejects and the request *)
(* is left without an answer.                                              *)
logoutUnhandled == [Resp(0, "unanswered") EXCEPT !.log = "unhandled rejection: Illegal arguments"]

(* The queries of lines 186 and 199 and the save of line 203 run outside   *)
(* every try block as well.                                                *)
logoutDbUnhandled == [Resp(0, "unanswered") EXCEPT !.log = "unhandled rejection: MongoError"]

logoutCatch == [Resp(204, "-") EXCEPT !.cookie = CookieClear]

logoutDone_noClear(userToLogout, decodedId) ==
    [Resp(204, "-") EXCEPT !.cookie = CookieClear, !.decoded = decodedId]

logoutDone(userToLogout, decodedId) ==
    [Resp(204, "-") EXCEPT
        !.cookie = CookieClear, !.decoded = decodedId,
        !.wrote = IF userToLogout.found
                  THEN {[id |-> userToLogout.id, val |-> EmptyString]} ELSE {}]

logoutOutcome(tok, t, d, s) ==
    LET decodedRefreshToken == jwtVerify(tok, REFRESH_TOKEN_SECRET, t)
        userToLogout == findById(d, decodedRefreshToken.id)
    IN  IF tok = NoToken
        THEN [res |-> logoutNoCookie]
        ELSE IF bcryptHashRejects(tok)
        THEN [res |-> logoutUnhandled]
        ELSE IF readRejects(s)
        THEN [res |-> logoutDbUnhandled]
        ELSE IF ~decodedRefreshToken.ok
        THEN [res |-> logoutCatch]
        ELSE IF userToLogout.found /\ writeRejects(s)
        THEN [res |-> logoutDbUnhandled]
        ELSE [res |-> logoutDone(userToLogout, decodedRefreshToken.id)]

(***************************************************************************)
(* protect and authorizeRoles                                              *)
(***************************************************************************)
protectNoToken == Resp(401, "Not authorized, no token provided")

(* One answer for every error of jwt.verify; err.message goes to the log.  *)
protectInvalid(errorName) ==
    [Resp(401, "Not authorized, token invalid or expired") EXCEPT
        !.log = IF errorName = "TokenExpiredError"
                THEN "error: JWT verification failed: jwt expired"
                ELSE "error: JWT verification failed: invalid token"]

protectUserNotFound == Resp(401, "User not found, authorization denied")

(* req.user = { id, name, email, role }                                    *)
AttachedKeys == {"id", "name", "email", "role"}

Attached(user) ==
    [Resp(200, "ok") EXCEPT !.user = AttachedKeys, !.decoded = user.id]

protectOutcome_sessionBound(tok, t, d) ==
    LET decoded == jwtVerify(tok, JWT_SECRET, t)
        user == findById(d, decoded.id)
    IN  IF tok = NoToken
        THEN [next |-> FALSE, res |-> protectNoToken, user |-> NullDoc]
        ELSE IF ~decoded.ok
        THEN [next |-> FALSE, res |-> protectInvalid(decoded.name), user |-> NullDoc]
        ELSE IF ~user.found \/ user.refreshToken.t # "bcrypt"
        THEN [next |-> FALSE, res |-> protectUserNotFound, user |-> NullDoc]
        ELSE [next |-> TRUE, res |-> Attached(user), user |-> user]

protectOutcome(tok, t, d) ==
    LET decoded == jwtVerify(tok, JWT_SECRET, t)
        user == findById(d, decoded.id)
    IN  IF tok = NoToken
        THEN [next |-> FALSE, res |-> protectNoToken, user |-> NullDoc]
        ELSE IF ~decoded.ok
        THEN [next |-> FALSE, res |-> protectInvalid(decoded.name), user |-> NullDoc]
        ELSE IF ~user.found
        THEN [next |-> FALSE, res |-> protectUserNotFound, user |-> NullDoc]
        ELSE [next |-> TRUE, res |-> Attached(user), user |-> user]

accessDenied(user) ==
    [Resp(403, "Access denied: role is not permitted") EXCEPT
        !.user = AttachedKeys, !.decoded = user.id]

authorizeRoles(roles, p) ==
    IF ~p.next THEN p
    ELSE IF p.user.role \notin roles
    THEN [next |-> FALSE, res |-> accessDenied(p.user), user |-> p.user]
    ELSE p

(* router.use(protect, authorizeRoles('admin'))                            *)
adminGate(tok, t, d) == authorizeRoles({"admin"}, protectOutcome(tok, t, d))

(***************************************************************************)
(* getUserProfile.  req.user has no _id, and JSON drops an undefined       *)
(* value, so the body carries name, email and role.                        *)
(***************************************************************************)
profileOk(p) == [p.res EXCEPT !.keys = {"name", "email", "role"}]

(***************************************************************************)
(* The user controller.  A query result serialises the paths its document  *)
(* holds, less the paths the projection excludes, less the paths the       *)
(* schema marks select: false.                                             *)
(***************************************************************************)
SelectFalse == {"refreshTokenHash"}

DocPaths(d, u) ==
    {"_id", "name", "email", "passwordHash", "role", "createdAt", "updatedAt", "__v"}
        \cup {path \in {"refreshTokenHash", "refreshToken"} :
                path \in SchemaPaths /\ d[u][path].t # "undefined"}

select(paths, excluded) == (paths \ excluded) \ SelectFalse

Existing(d) == {u \in Users : d[u].exists}

getAllUsersOk(p, d) ==
    [p.res EXCEPT !.keys =
        UNION {select(DocPaths(d, u), {"passwordHash", "refreshToken"}) : u \in Existing(d)}]

userNotFound(p) == [p.res EXCEPT !.status = 404, !.msg = "User not found", !.keys = {"message"}]

getUserByIdOutcome(p, id, d) ==
    IF findById(d, id).found
    THEN [p.res EXCEPT !.keys = select(DocPaths(d, id), {"passwordHash", "refreshToken"})]
    ELSE userNotFound(p)

(* createUser: the routes attach no validators, so validationResult is     *)
(* empty; the schema's minlength of passwordHash is what rejects a short   *)
(* password, inside User.create.                                           *)
Emails == {"alice@x", "carol@x"}

NewPasswords == {"pw-carol", "short"}

userExists(d, email) == \E u \in Existing(d) : d[u].email = email

controllerCatch(p, message) ==
    [p.res EXCEPT !.status = 500, !.msg = message, !.keys = {"message"},
                  !.log = "error: user controller"]

createUserOutcome(p, email, password, d) ==
    IF userExists(d, email)
    THEN [res |-> [p.res EXCEPT !.status = 400, !.msg = "User with that email already exists",
                                !.keys = {"message"}],
          db |-> d]
    ELSE IF password = "short" \/ Existing(d) = Users
    THEN [res |-> controllerCatch(p, "User validation failed"), db |-> d]
    ELSE LET u == CHOOSE x \in Users : ~d[x].exists
         IN  [res |-> [p.res EXCEPT !.status = 201,
                                    !.keys = {"_id", "name", "email", "role", "createdAt"}],
              db |-> [d EXCEPT ![u] = [exists |-> TRUE, name |-> NameOf(u), email |-> email,
                                       role |-> "user", refreshTokenHash |-> Undefined,
                                       refreshToken |-> Undefined]]]

(* updateUser: "-" is a body without role; "root" is a role outside the    *)
(* schema's enum, which user.save() rejects.                               *)
NewRoles == {"-", "user", "admin", "root"}

updateUserOutcome(p, id, role, d) ==
    IF ~findById(d, id).found THEN [res |-> userNotFound(p), db |-> d]
    ELSE IF role = "root"
    THEN [res |-> controllerCatch(p, "User validation failed"), db |-> d]
    ELSE [res |-> [p.res EXCEPT !.keys = {"_id", "name", "email", "role"}],
          db |-> IF role = "-" THEN d ELSE [d EXCEPT ![id].role = role]]

(* deleteUser compares req.user._id.toString() with the target's _id;      *)
(* protect attaches { id, name, email, role }, so req.user._id is          *)
(* undefined and the comparison throws a TypeError into the catch block.   *)
deleteSelfRefused(p) ==
    [p.res EXCEPT !.status = 400,
                  !.msg = "Admin cannot delete their own account via this route.",
                  !.keys = {"message"}]

deleteDone(p) == [p.res EXCEPT !.msg = "User removed", !.keys = {"message"}]

deleteUserOutcome(p, id, d) ==
    IF ~findById(d, id).found THEN [res |-> userNotFound(p), db |-> d]
    ELSE IF "_id" \notin p.res.user
    THEN [res |-> controllerCatch(p, "Cannot read properties of undefined (reading 'toString')"),
          db |-> d]
    ELSE IF p.user.id = id THEN [res |-> deleteSelfRefused(p), db |-> d]
    ELSE [res |-> deleteDone(p), db |-> [d EXCEPT ![id].exists = FALSE]]

(***************************************************************************)
(* The state machine.                                                      *)
(***************************************************************************)
Init ==
    /\ now = 0
    /\ ticks = 0
    /\ db = [u \in Users |-> [exists |-> u \in Seeded, name |-> NameOf(u),
                              email |-> EmailOf(u), role |-> RoleOf(u),
                              refreshTokenHash |-> Undefined, refreshToken |-> Undefined]]
    /\ dbState = "up"
    /\ issued = {}
    /\ req = NoReq
    /\ res = NoRes
    /\ loggedOut = {}
    /\ rotated = {}
    /\ stored = [u \in Users |-> NoToken]
    /\ calls = [p \in Procs |-> Idle]

(* The newest refresh token minted for an account, and the access token    *)
(* minted with it.                                                         *)
IsLatest(m) == \A n \in issued : n.id = m.id => n.iat <= m.iat

issuedAccess == {generateAccessToken(m.id, m.iat) : m \in {n \in issued : IsLatest(n)}}

(* What a client can put into the refreshToken cookie.                     *)
Presentable == {NoToken, Garbage, JsonCookie, Forged} \cup issued \cup issuedAccess

loginUser(username, password) ==
    LET out == loginOutcome(username, password, now, db, dbState)
    IN  /\ req' = [op |-> "login", username |-> username, tok |-> NoToken, id |-> "-"]
        /\ res' = out.res
        /\ db' = persist(db, out.res.wrote)
        /\ stored' = track(stored, out.res)
        /\ issued' = issued \cup {m \in out.minted : m.secret = REFRESH_TOKEN_SECRET}
        /\ loggedOut' = IF out.res.status = 200
                        THEN loggedOut \ {out.res.cookie.tok.id} ELSE loggedOut
        /\ UNCHANGED <<now, ticks, dbState, rotated, calls>>

refreshAccessToken(tok) ==
    LET out == refreshOutcome(tok, now, db, dbState)
    IN  /\ req' = [op |-> "refresh", username |-> "", tok |-> tok, id |-> "-"]
        /\ res' = out.res
        /\ db' = persist(db, out.res.wrote)
        /\ stored' = track(stored, out.res)
        /\ issued' = issued \cup {m \in out.minted : m.secret = REFRESH_TOKEN_SECRET}
        /\ rotated' = IF out.res.status = 200 THEN rotated \cup {tok} ELSE rotated
        /\ UNCHANGED <<now, ticks, dbState, loggedOut, calls>>

logoutUser(tok) ==
    LET out == logoutOutcome(tok, now, db, dbState)
    IN  /\ req' = [op |-> "logout", username |-> "", tok |-> tok, id |-> "-"]
        /\ res' = out.res
        /\ db' = persist(db, out.res.wrote)
        /\ stored' = track(stored, out.res)
        /\ loggedOut' = IF out.res.decoded # "-"
                        THEN loggedOut \cup {out.res.decoded} ELSE loggedOut
        /\ UNCHANGED <<now, ticks, dbState, issued, rotated, calls>>

Tick(d) ==
    /\ ticks < MaxTicks
    /\ now' = now + d
    /\ ticks' = ticks + 1
    /\ UNCHANGED <<db, dbState, issued, req, res, loggedOut, rotated, stored, calls>>

Next ==
    \/ \E username \in LoginNames, password \in LoginPasswords : loginUser(username, password)
    \/ \E tok \in Presentable : refreshAccessToken(tok)
    \/ \E tok \in Presentable : logoutUser(tok)
    \/ \E d \in TickSteps : Tick(d)

Spec == Init /\ [][Next]_vars

(***************************************************************************)
(* The same handlers over a connection that can fail between requests.     *)
(***************************************************************************)
connectionChange(s) ==
    /\ s # dbState
    /\ dbState' = s
    /\ UNCHANGED <<now, ticks, db, issued, req, res, loggedOut, rotated, stored, calls>>

NextFault ==
    \/ \E username \in LoginNames, password \in LoginPasswords : loginUser(username, password)
    \/ \E tok \in Presentable : refreshAccessToken(tok)
    \/ \E tok \in Presentable : logoutUser(tok)
    \/ \E d \in TickSteps : Tick(d)
    \/ \E s \in DbStates : connectionChange(s)

SpecFault == Init /\ [][NextFault]_vars

(***************************************************************************)
(* The routes behind protect: /api/auth/profile and /api/users.            *)
(***************************************************************************)
(* Every access token minted so far.                                       *)
issuedAccessAll == {generateAccessToken(m.id, m.iat) : m \in issued}

(* What a client can put after "Bearer " in the Authorization header.      *)
Bearers == {NoToken, Garbage, Forged} \cup issued \cup issuedAccessAll

getUserProfile(tok) ==
    LET p == protectOutcome(tok, now, db)
    IN  /\ req' = [op |-> "profile", username |-> "", tok |-> tok, id |-> "-"]
        /\ res' = IF p.next THEN profileOk(p) ELSE p.res
        /\ UNCHANGED <<now, ticks, db, dbState, issued, loggedOut, rotated, stored, calls>>

getAllUsers(tok) ==
    LET p == adminGate(tok, now, db)
    IN  /\ req' = [op |-> "getAllUsers", username |-> "", tok |-> tok, id |-> "-"]
        /\ res' = IF p.next THEN getAllUsersOk(p, db) ELSE p.res
        /\ UNCHANGED <<now, ticks, db, dbState, issued, loggedOut, rotated, stored, calls>>

getUserById(tok, id) ==
    LET p == adminGate(tok, now, db)
    IN  /\ req' = [op |-> "getUserById", username |-> "", tok |-> tok, id |-> id]
        /\ res' = IF p.next THEN getUserByIdOutcome(p, id, db) ELSE p.res
        /\ UNCHANGED <<now, ticks, db, dbState, issued, loggedOut, rotated, stored, calls>>

createUser(tok, email, password) ==
    LET p == adminGate(tok, now, db)
        out == createUserOutcome(p, email, password, db)
    IN  /\ req' = [op |-> "createUser", username |-> email, tok |-> tok, id |-> "-"]
        /\ res' = IF p.next THEN out.res ELSE p.res
        /\ db' = IF p.next THEN out.db ELSE db
        /\ UNCHANGED <<now, ticks, dbState, issued, loggedOut, rotated, stored, calls>>

updateUser(tok, id, role) ==
    LET p == adminGate(tok, now, db)
        out == updateUserOutcome(p, id, role, db)
    IN  /\ req' = [op |-> "updateUser", username |-> "", tok |-> tok, id |-> id]
        /\ res' = IF p.next THEN out.res ELSE p.res
        /\ db' = IF p.next THEN out.db ELSE db
        /\ UNCHANGED <<now, ticks, dbState, issued, loggedOut, rotated, stored, calls>>

deleteUser(tok, id) ==
    LET p == adminGate(tok, now, db)
        out == deleteUserOutcome(p, id, db)
    IN  /\ req' = [op |-> "deleteUser", username |-> "", tok |-> tok, id |-> id]
        /\ res' = IF p.next THEN out.res ELSE p.res
        /\ db' = IF p.next THEN out.db ELSE db
        /\ UNCHANGED <<now, ticks, dbState, issued, loggedOut, rotated, stored, calls>>

(* The clock around the lifetime of an access token: 14 minutes 59         *)
(* seconds and 15 minutes 1 second.                                        *)
AccessTickSteps == {899, 901}

(* Sessions and the profile route, over the lifetime of an access token.   *)
NextAccess ==
    \/ \E username \in LoginNames, password \in LoginPasswords : loginUser(username, password)
    \/ \E tok \in Presentable : refreshAccessToken(tok)
    \/ \E tok \in Presentable : logoutUser(tok)
    \/ \E tok \in Bearers : getUserProfile(tok)
    \/ \E d \in AccessTickSteps : Tick(d)

SpecAccess == Init /\ [][NextAccess]_vars

(* Sessions and the admin routes of /api/users, within one second.         *)
NextAdmin ==
    \/ \E username \in LoginNames, password \in LoginPasswords : loginUser(username, password)
    \/ \E tok \in Presentable : refreshAccessToken(tok)
    \/ \E tok \in Bearers : getUserProfile(tok)
    \/ \E tok \in Bearers : getAllUsers(tok)
    \/ \E tok \in Bearers, id \in Users : getUserById(tok, id)
    \/ \E tok \in Bearers, email \in Emails, password \in NewPasswords :
            createUser(tok, email, password)
    \/ \E tok \in Bearers, id \in Users, role \in NewRoles : updateUser(tok, id, role)
    \/ \E tok \in Bearers, id \in Users : deleteUser(tok, id)

SpecAdmin == Init /\ [][NextAdmin]_vars

(***************************************************************************)
(* Interleaved requests: each of two requests runs refreshAccessToken in   *)
(* its two steps, the steps of the two interleaving freely; logins and     *)
(* logouts are whole, and fall between those steps.                        *)
(***************************************************************************)
refreshBegin(p, tok) ==
    LET out == refreshUntilRead(tok, now, db, dbState)
    IN  /\ calls[p].pc = "idle"
        /\ calls' = [calls EXCEPT ![p] =
                [pc |-> IF out.done THEN "done" ELSE "loaded", tok |-> tok,
                 user |-> out.user, res |-> out.res,
                 wasStored |-> tok.id \in Users /\ stored[tok.id] = tok]]
        /\ UNCHANGED <<now, ticks, db, dbState, issued, req, res, loggedOut, rotated, stored>>

refreshFinish(p) ==
    LET out == refreshFromRecord(calls[p].tok, now, calls[p].user, dbState)
    IN  /\ calls[p].pc = "loaded"
        /\ calls' = [calls EXCEPT ![p].pc = "done", ![p].res = out.res]
        /\ db' = persist(db, out.res.wrote)
        /\ stored' = track(stored, out.res)
        /\ issued' = issued \cup {m \in out.minted : m.secret = REFRESH_TOKEN_SECRET}
        /\ rotated' = IF out.res.status = 200 THEN rotated \cup {calls[p].tok} ELSE rotated
        /\ UNCHANGED <<now, ticks, dbState, req, res, loggedOut>>

NextRace ==
    \/ \E username \in LoginNames, password \in LoginPasswords : loginUser(username, password)
    \/ \E p \in Procs, tok \in Presentable : refreshBegin(p, tok)
    \/ \E p \in Procs : refreshFinish(p)
    \/ \E tok \in Presentable : logoutUser(tok)

SpecRace == Init /\ [][NextRace]_vars

(***************************************************************************)
(* Vocabulary of the properties.                                           *)
(***************************************************************************)
(* A step in which the handler op answers a request presenting tok.        *)
Calls(op, tok) == ticks' = ticks /\ req'.op = op /\ req'.tok = tok

(* tok carries a valid signature of the refresh secret.                    *)
SignedRefresh(tok) == tok.fmt = "jwt" /\ tok.secret = REFRESH_TOKEN_SECRET

(* tok passes jwt.verify of the refresh secret at time t.                  *)
Verifies(tok, t) == jwtVerify(tok, REFRESH_TOKEN_SECRET, t).ok

(* tok passes the stored-digest check refresh makes on collection d.       *)
Live(tok, d) ==
    /\ findById(d, tok.id).found
    /\ bcryptCompare(tok, findById(d, tok.id).refreshToken) = "true"

(* The slot of account u holds no digest.                                  *)
SlotEmpty(d, u) == findById(d, u).refreshToken.t # "bcrypt"

(* A newer refresh token has been minted for the account of tok.           *)
Replaced(tok) == \E n \in issued : n.id = tok.id /\ n.iat > tok.iat

Rotates(r) == r.status = 200 /\ r.cookie.act = "set" /\ r.token # NoToken

ReuseDetected(r) ==
    /\ r.status = 403
    /\ r.log = "warn: refresh token reuse detected"
    /\ r.wrote = {[id |-> r.decoded, val |-> EmptyString]}

SessionExpired(r) == r.status = 403 /\ r.expired

(***************************************************************************)
(* C1.  After a successful login of an account, the first refresh call     *)
(* presenting the refresh token that login returned succeeds and rotates,  *)
(* and every refresh call presenting that token after the rotation fails.  *)
(***************************************************************************)
C1_SingleUse ==
    [][\A tok \in issued :
        Calls("refresh", tok) =>
            /\ (req.op = "login" /\ res.status = 200 /\ res.cookie = CookieSet(tok)
                    /\ Verifies(tok, now))
                => Rotates(res')
            /\ (tok \in rotated) => res'.status # 200]_vars

(***************************************************************************)
(* C2.  A refresh call presenting a refresh token of account A that has    *)
(* been replaced (valid signature, unexpired, not matching the stored      *)
(* digest) is answered by the reuse-detected failure, with the slot of A   *)
(* cleared, and after it no refresh token of A is accepted.                *)
(***************************************************************************)
C2_ReplayDetected ==
    [][\A tok \in issued :
        (Calls("refresh", tok) /\ Verifies(tok, now) /\ findById(db, tok.id).found
            /\ Replaced(tok) /\ ~Live(tok, db))
        => /\ ReuseDetected(res')
           /\ SlotEmpty(db', tok.id)
           /\ \A other \in issued' : other.id = tok.id => ~Live(other, db')]_vars

C4_SecondLoginWins ==
    [][\A first, second \in issued :
        (/\ req.op = "login" /\ res.status = 200 /\ res.cookie = CookieSet(second)
         /\ first.id = second.id /\ first.iat < second.iat
         /\ Verifies(first, now) /\ Verifies(second, now))
        => /\ Calls("refresh", first) => res'.status # 200
           /\ Calls("refresh", second) => Rotates(res')]_vars

(***************************************************************************)
(* C5.  The scenario: u1 logs in and receives RT1; refresh with RT1        *)
(* rotates to RT2; a second refresh with RT1 fails with reuse detected; a  *)
(* refresh with RT2 then rotates to RT3.                                   *)
(***************************************************************************)
C5_Scenario ==
    [][\A rt1 \in issued :
        /\ (/\ req.op = "login" /\ res.status = 200 /\ res.cookie = CookieSet(rt1)
            /\ rt1.id = "u1" /\ Calls("refresh", rt1) /\ Verifies(rt1, now))
           => Rotates(res')
        /\ (/\ req.op = "refresh" /\ req.tok = rt1 /\ Rotates(res)
            /\ Calls("refresh", rt1) /\ Verifies(rt1, now))
           => ReuseDetected(res')
        /\ \A rt2 \in issued :
            (/\ req.op = "refresh" /\ req.tok = rt1 /\ ReuseDetected(res)
             /\ rt2.id = rt1.id /\ IsLatest(rt2) /\ rt2 # rt1
             /\ Calls("refresh", rt2) /\ Verifies(rt2, now))
            => Rotates(res')]_vars

(***************************************************************************)
(* C6.  A refresh call presenting a validly signed refresh token at or     *)
(* after its expiry fails with the session-expired answer and never with   *)
(* the reuse-detected one, whether or not its digest is the stored one.    *)
(***************************************************************************)
C6_ExpiredIsSessionExpired ==
    [][\A tok \in Presentable :
        (Calls("refresh", tok) /\ SignedRefresh(tok) /\ now >= tok.exp)
        => (SessionExpired(res') /\ ~ReuseDetected(res') /\ res'.msg = "Refresh token expired")]_vars

C6_Witness ==
    /\ req.op = "refresh" /\ SignedRefresh(req.tok) /\ req.tok \in issued
    /\ now >= req.tok.exp
    /\ SessionExpired(res) /\ res.msg = "Refresh token expired"

(***************************************************************************)
(* C7.  As claimed: a refresh call that fails because its token is validly *)
(* signed but expired clears the stored digest slot of the token's subject *)
(* before it answers.                                                      *)
(***************************************************************************)
C7_ExpiredClearsSlot ==
    [][\A tok \in issued :
        (Calls("refresh", tok) /\ SignedRefresh(tok) /\ now >= tok.exp)
        => (SessionExpired(res') /\ [id |-> tok.id, val |-> EmptyString] \in res'.wrote)]_vars

(***************************************************************************)
(* C7, amended.  A refresh call that fails because its token is validly    *)
(* signed but expired answers session-expired, clears the refreshToken     *)
(* cookie and writes no account record: every slot is left as it was.      *)
(***************************************************************************)
C7_ExpiredLeavesStore ==
    [][\A tok \in issued :
        (Calls("refresh", tok) /\ SignedRefresh(tok) /\ now >= tok.exp)
        => /\ SessionExpired(res')
           /\ res'.cookie = CookieClear
           /\ res'.wrote = {}
           /\ db' = db]_vars

C7_Witness ==
    /\ req.op = "refresh" /\ req.tok \in issued /\ now >= req.tok.exp
    /\ res.expired /\ res.cookie = CookieClear /\ res.wrote = {}
    /\ res.decoded = "-"

C9_LogoutNeverErrors == req.op = "logout" => res.status = 204

(***************************************************************************)
(* C10.  When logout is presented a refresh token that verifies for        *)
(* subject A, it clears the slot of A, which is empty when logout returns  *)
(* whether or not the presented token was the live one, and from then until *)
(* the next login of A refresh accepts no refresh token of A.              *)
(***************************************************************************)
C10_LogoutClearsSlot ==
    [][/\ \A tok \in issued :
            (Calls("logout", tok) /\ Verifies(tok, now))
            => /\ SlotEmpty(db', tok.id)
               /\ findById(db, tok.id).found
                    => res'.wrote = {[id |-> tok.id, val |-> EmptyString]}
               /\ \A other \in issued : other.id = tok.id => ~Live(other, db')
       /\ \A tok \in issued :
            (Calls("refresh", tok) /\ tok.id \in loggedOut) => res'.status # 200]_vars

C10_Witness ==
    /\ req.op = "refresh" /\ req.tok \in issued /\ req.tok.id \in loggedOut
    /\ res.status = 403 /\ ~res.expired
    /\ Replaced(req.tok)

(***************************************************************************)
(* C11.  The stored-digest check of refresh, bcrypt.compare(token,         *)
(* user.refreshToken), returns true exactly when the presented token is    *)
(* the one whose digest was most recently stored for its account with the  *)
(* slot not cleared since, and false for every other token and when no     *)
(* digest is stored; when it returns false refresh takes the               *)
(* reuse-detected path.                                                    *)
(***************************************************************************)
C11_StoredDigestCheck ==
    [][\A tok \in issued :
        (Calls("refresh", tok) /\ Verifies(tok, now) /\ findById(db, tok.id).found)
        => LET match == bcryptCompare(tok, findById(db, tok.id).refreshToken)
           IN  /\ match \in {"true", "false"}
               /\ (match = "true") <=> (stored[tok.id] = tok)
               /\ (match = "false") => ReuseDetected(res')]_vars

(***************************************************************************)
(* Vocabulary of the properties about protect.                             *)
(***************************************************************************)
(* tok passes jwt.verify of the access secret at time t.                   *)
VerifiesAccess(tok, t) == jwtVerify(tok, JWT_SECRET, t).ok

(* protect let the request through: it attached req.user and called next. *)
Admitted(r) == r.user = AttachedKeys

(* What the caller sees of a response.                                     *)
Visible(r) == <<r.status, r.msg, r.expired, r.keys>>

(***************************************************************************)
(* C12.  Key separation.  protect never admits a request that presents a   *)
(* refresh token the system issued; refresh never accepts an access token  *)
(* the system issued, and logout never takes one for a verifying token:    *)
(* neither decodes a subject from it nor writes an account record.         *)
(***************************************************************************)
C12_KeySeparation ==
    [][/\ \A rt \in issued :
            Calls("profile", rt) => (~Admitted(res') /\ res'.status = 401)
       /\ \A at \in issuedAccessAll :
            /\ Calls("refresh", at)
                => (res'.status = 403 /\ res'.decoded = "-" /\ res'.wrote = {}
                    /\ res'.token = NoToken)
            /\ Calls("logout", at) => (res'.decoded = "-" /\ res'.wrote = {})]_vars

C12_Witness ==
    /\ req.op = "profile" /\ req.tok \in issued /\ Verifies(req.tok, now)
    /\ res.status = 401 /\ res.msg = "Not authorized, token invalid or expired"

(***************************************************************************)
(* C13.  protect decides on the current clock with a lifetime of 15        *)
(* minutes: an access token of an existing account presented 14 minutes 59 *)
(* seconds after it was issued is admitted, and one presented 15 minutes 1 *)
(* second after it was issued is rejected, jwt.verify reporting it as      *)
(* expired.                                                                *)
(***************************************************************************)
C13_FifteenMinutes ==
    [][\A at \in issuedAccessAll :
        (Calls("profile", at) /\ findById(db, at.id).found)
        => /\ (now - at.iat = 899) => (Admitted(res') /\ res'.status = 200)
           /\ (now - at.iat = 901)
                => /\ ~Admitted(res') /\ res'.status = 401
                   /\ jwtVerify(at, JWT_SECRET, now).name = "TokenExpiredError"
                   /\ res'.log = "error: JWT verification failed: jwt expired"]_vars

C13_Witness ==
    /\ req.op = "profile" /\ req.tok \in issuedAccessAll
    /\ now - req.tok.iat = 901
    /\ res.status = 401 /\ res.log = "error: JWT verification failed: jwt expired"

(***************************************************************************)
(* C14.  The answer to an expired token and the answer to a malformed or   *)
(* forged token differ in what the caller sees, in protect and in refresh: *)
(* of two calls in a row to the same route, the first presenting a validly *)
(* signed expired token and the second a malformed or forged one, the      *)
(* responses are not the same.                                             *)
(***************************************************************************)
C14_ExpiredVersusInvalid ==
    [][/\ (/\ req.op = "profile" /\ Calls("profile", req'.tok)
           /\ jwtVerify(req.tok, JWT_SECRET, now).name = "TokenExpiredError"
           /\ req'.tok \in {Garbage, Forged})
          => Visible(res') # Visible(res)
       /\ (/\ req.op = "refresh" /\ Calls("refresh", req'.tok)
           /\ jwtVerify(req.tok, REFRESH_TOKEN_SECRET, now).name = "TokenExpiredError"
           /\ req'.tok \in {Garbage, Forged})
          => Visible(res') # Visible(res)]_vars

(***************************************************************************)
(* C17.  No session operation revokes an access token: a request that      *)
(* presents a validly signed, unexpired access token of an account that    *)
(* exists is admitted by protect, whatever logins, refreshes and logouts   *)
(* of that account came after the token was issued.                        *)
(***************************************************************************)
C17_NoAccessRevocation ==
    [][\A at \in issuedAccessAll :
        (Calls("profile", at) /\ VerifiesAccess(at, now) /\ findById(db, at.id).found)
        => (Admitted(res') /\ res'.status = 200 /\ res'.decoded = at.id)]_vars

C17_Witness ==
    /\ req.op = "profile" /\ req.tok \in issuedAccessAll
    /\ res.status = 200 /\ Admitted(res)
    /\ req.tok.id \in loggedOut
    /\ \E n \in issued : n.id = req.tok.id /\ n.iat > req.tok.iat

(***************************************************************************)
(* C15.  Every failing refresh call reports the one error kind its cause   *)
(* fixes: no token or a garbled one, Unauthorized; a valid signature past  *)
(* expiry, SessionExpired; a valid signature with a mismatched digest or   *)
(* an empty slot, Forbidden with reuse detected; a subject that is no      *)
(* account, AccountNotFound.  And what the caller sees of it differs from  *)
(* what the caller would see, in the same state, of a failure of any other *)
(* cause.                                                                  *)
(***************************************************************************)
Cause(tok, t, d) ==
    IF tok = NoToken \/ jwtVerify(tok, REFRESH_TOKEN_SECRET, t).name = "JsonWebTokenError"
    THEN "Unauthorized"
    ELSE IF jwtVerify(tok, REFRESH_TOKEN_SECRET, t).name = "TokenExpiredError"
    THEN "SessionExpired"
    ELSE IF ~findById(d, tok.id).found THEN "AccountNotFound"
    ELSE IF ~Live(tok, d) THEN "ReuseDetected"
    ELSE "none"

KindOf(r) ==
    IF r.status = 401 THEN "Unauthorized"
    ELSE IF r.status = 403 /\ r.expired THEN "SessionExpired"
    ELSE IF r.status = 403 /\ r.msg = "Forbidden: User not found with refresh token"
    THEN "AccountNotFound"
    ELSE IF r.status = 403 THEN "ReuseDetected"
    ELSE "none"

C15_ErrorKinds ==
    [][\A tok \in Presentable :
        (Calls("refresh", tok) /\ res'.status # 200)
        => /\ KindOf(res') = Cause(tok, now, db)
           /\ \A other \in Presentable :
                Cause(other, now, db) \notin {Cause(tok, now, db), "none"}
                => Visible(refreshOutcome(other, now, db, dbState).res) # Visible(res')]_vars

(***************************************************************************)
(* C16.  Two concurrent refresh calls that present the same refresh token, *)
(* the one whose digest is the stored one of its account, and that have    *)
(* both loaded the account record before either has written it, both pass  *)
(* the digest check and both answer with a rotated pair.                   *)
(***************************************************************************)
Racing(p, q) ==
    /\ p # q
    /\ calls[p].pc = "loaded" /\ calls[q].pc \in {"loaded", "done"}
    /\ calls[p].tok = calls[q].tok /\ calls[p].user = calls[q].user
    /\ calls[p].wasStored /\ calls[q].wasStored

C16_BothRotate ==
    [][\A p, q \in Procs :
        (Racing(p, q) /\ calls'[p].pc = "done")
        => /\ bcryptCompare(calls[p].tok, calls[p].user.refreshToken) = "true"
           /\ Rotates(calls'[p].res)]_vars

(***************************************************************************)
(* C18.  Every login, refresh and logout call completes with a response to *)
(* the caller, whatever the outcome of the account-record read or write it *)
(* performs: no call that presents a string cookie, or none, is left       *)
(* without an answer, also when the read or the write fails.  (The cookie  *)
(* that is not a string is the case of C9.)                                *)
(***************************************************************************)
C18_AlwaysAnswers ==
    (req.op \in {"login", "refresh", "logout"} /\ req.tok.fmt # "json") => res.status # 0

(***************************************************************************)
(* C19.  No response of login, refresh, profile, getAllUsers, getUserById, *)
(* createUser or updateUser carries the refresh-token digest of an         *)
(* account, under either of the names the code gives it, and neither does  *)
(* the user object protect attaches to the request.                        *)
(***************************************************************************)
DigestKeys == {"refreshToken", "refreshTokenHash"}

C19_DigestNeverReturned ==
    /\ res.keys \cap DigestKeys = {}
    /\ res.user \cap DigestKeys = {}

C19_Witness ==
    /\ req.op = "getAllUsers" /\ res.status = 200
    /\ "email" \in res.keys /\ "passwordHash" \notin res.keys
    /\ \E u \in Users : stored[u] # NoToken /\ stored[u].id = req.tok.id

(***************************************************************************)
(* C20.  deleteUser behind protect and authorizeRoles('admin'): when the   *)
(* admin targets their own account the call is refused with the 'cannot    *)
(* delete their own account' answer and the account remains; when the      *)
(* admin targets another existing account, that account is removed and the *)
(* call answers 'User removed'.                                            *)
(***************************************************************************)
C20_DeleteUser ==
    [][\A at \in issuedAccessAll :
        (/\ Calls("deleteUser", at)
         /\ adminGate(at, now, db).next
         /\ findById(db, req'.id).found)
        => IF req'.id = at.id
           THEN /\ res'.status = 400
                /\ res'.msg = "Admin cannot delete their own account via this route."
                /\ db' = db
           ELSE /\ res'.status = 200 /\ res'.msg = "User removed"
                /\ ~findById(db', req'.id).found]_vars

====
